---------------------------- MODULE Spec2Model ----------------------------
(***************************************************************************)
(* A model of three parts of badger:                                       *)
(*   - levelHandler  (level_handler.go): the table list of one LSM level,  *)
(*     its sizes, its RWMutex, the reference counts of the tables;         *)
(*   - MergeIterator (table/merge_iterator.go): the binary tree of two-way *)
(*     mergers over sorted iterators;                                      *)
(*   - discardStats  (discard.go): the sorted slot file of discard counts. *)
(* Each part has its own specification over the shared variables.          *)
(***************************************************************************)
EXTENDS Integers, Sequences, FiniteSets, TLC

VARIABLES
    level,           \* levelHandler.level
    tables,          \* levelHandler.tables: a sequence of table ids
    totalSize,       \* levelHandler.totalSize
    totalStaleSize,  \* levelHandler.totalStaleSize
    ref,             \* table.ref of every table: id -> reference count
    writer,          \* the goroutine holding the RWMutex for writing, or 0
    readers,         \* the goroutines holding the RWMutex for reading
    pc,              \* goroutine -> its position in the operation it runs
    loc,             \* goroutine -> the arguments and locals of that operation
    calls,           \* the number of levelHandler operations started so far
    mi,              \* the iterator built by NewMergeIterator (a tree)
    mpc,             \* the last call on the merge iterator
    emitted,         \* the keys read from the merge iterator since Rewind or Seek
    lf,              \* discardStats: Data (the slots) and nextEmptySlot
    dcall,           \* the last discardStats call: its arguments and result
    dlog,            \* the Update calls made so far: fid and discard of each
    dmu,             \* discardStats.Mutex: the goroutine holding it, or 0
    dpc              \* goroutine -> its position in the discardStats method it runs

lhVars == <<level, tables, totalSize, totalStaleSize, ref, writer, readers, pc, loc, calls>>
miVars == <<mi, mpc, emitted>>
dsVars == <<lf, dcall, dlog, dmu, dpc>>
vars == <<level, tables, totalSize, totalStaleSize, ref, writer, readers, pc, loc,
          calls, mi, mpc, emitted, lf, dcall, dlog, dmu, dpc>>

-----------------------------------------------------------------------------
(* Generic helpers on sequences *)

Range(s) == {s[i] : i \in DOMAIN s}

Reverse(s) == [i \in 1..Len(s) |-> s[Len(s) + 1 - i]]

\* The sequences without repetition over S of length lo..hi.
SeqsNoRep(S, lo, hi) ==
    UNION {{s \in [1..n -> S] : \A i, j \in 1..n : i # j => s[i] # s[j]} : n \in lo..hi}

\* Those of them that are ascending.
SeqsAsc(S, lo, hi) ==
    UNION {{s \in [1..n -> S] : \A i, j \in 1..n : i < j => s[i] < s[j]} : n \in lo..hi}

-----------------------------------------------------------------------------
(* Keys: a full key is <<user key, version>>. *)

\* y.CompareKeys: user key ascending, then version descending (the version is
\* stored as MaxUint64 - version, so a newer version sorts first).
CompareKeys(a, b) ==
    IF a[1] < b[1] THEN -1
    ELSE IF a[1] > b[1] THEN 1
    ELSE IF a[2] > b[2] THEN -1
    ELSE IF a[2] < b[2] THEN 1
    ELSE 0

\* y.ParseKey, y.ParseTs, y.SameKey, y.Hash
ParseKey(k) == k[1]
ParseTs(k) == k[2]
SameKey(a, b) == ParseKey(a) = ParseKey(b)
Hash(u) == u % 2

-----------------------------------------------------------------------------
(* Tables: immutable, identified by their id. *)

TableIds == {1, 2, 3}

\* The entries of each table, sorted by CompareKeys. Table 3 overlaps tables
\* 1 and 2, which are disjoint; table 2 is newer than table 1 and holds
\* smaller keys. Tables 4 and 5 lie above them, with gaps; they are used by
\* the range queries only.
TableKeys(t) ==
    CASE t = 1 -> << <<3, 1>>, <<4, 1>> >>
      [] t = 2 -> << <<1, 2>>, <<3, 3>>, <<3, 2>> >>
      [] t = 3 -> << <<3, 3>>, <<3, 1>>, <<4, 1>> >>
      [] t = 4 -> << <<5, 2>>, <<6, 1>> >>
      [] t = 5 -> << <<8, 1>> >>

ID(t) == t
Smallest(t) == TableKeys(t)[1]
Biggest(t) == TableKeys(t)[Len(TableKeys(t))]
Size(t) == CASE t = 1 -> 9 [] t = 2 -> 7 [] t = 3 -> 20 [] t = 4 -> 5 [] t = 5 -> 1
StaleDataSize(t) == CASE t = 1 -> 3 [] t = 2 -> 0 [] t = 3 -> 2 [] t = 4 -> 1 [] t = 5 -> 0

\* Table.DoesNotHave: the bloom filter holds the hashes of the table's user
\* keys; it has false positives (a hash collision) and no false negatives.
DoesNotHave(t, hash) == \A i \in DOMAIN TableKeys(t) : Hash(ParseKey(TableKeys(t)[i])) # hash

\* The keys the point lookups probe.
AllKeys == UNION {Range(TableKeys(t)) : t \in TableIds}

RangesDisjoint(a, b) ==
    \/ CompareKeys(Biggest(a), Smallest(b)) < 0
    \/ CompareKeys(Biggest(b), Smallest(a)) < 0

PairwiseDisjoint(S) == \A a, b \in S : a # b => RangesDisjoint(a, b)

-----------------------------------------------------------------------------
(* levelHandler: bounds and helpers *)

Procs == {1, 2}

MaxDel == 2      \* longest toDel list
MaxAdd == 2      \* longest toAdd list / initTables list
MaxRef == 3      \* no operation that takes a reference starts on a table at MaxRef
MaxCalls == 3    \* the operations started in one behaviour
NumLevelZeroTablesStall == 2   \* db.opt.NumLevelZeroTablesStall

RECURSIVE SizeSum(_)
SizeSum(s) == IF s = <<>> THEN 0 ELSE Size(Head(s)) + SizeSum(Tail(s))

RECURSIVE StaleSum(_)
StaleSum(s) == IF s = <<>> THEN 0 ELSE StaleDataSize(Head(s)) + StaleSum(Tail(s))

\* The comparison functions handed to sort.Slice.
LessByID(a, b) == ID(a) < ID(b)
LessBySmallest(a, b) == CompareKeys(Smallest(a), Smallest(b)) < 0
Less(byID, a, b) == IF byID THEN LessByID(a, b) ELSE LessBySmallest(a, b)

\* sort.Slice on a short slice is an insertion sort: each element moves left
\* past the elements it is less than.
RECURSIVE Insert(_, _, _)
Insert(byID, s, x) ==
    IF s = <<>> THEN <<x>>
    ELSE IF Less(byID, x, s[Len(s)])
         THEN Append(Insert(byID, SubSeq(s, 1, Len(s) - 1), x), s[Len(s)])
         ELSE Append(s, x)

RECURSIVE SortSlice(_, _)
SortSlice(byID, s) ==
    IF s = <<>> THEN <<>>
    ELSE Insert(byID, SortSlice(byID, SubSeq(s, 1, Len(s) - 1)), s[Len(s)])

\* sync.RWMutex: Lock waits for the writer and the readers to leave, RLock
\* for the writer.
CanLock == writer = 0 /\ readers = {}
CanRLock == writer = 0

NoValue == [Version |-> 0, Table |-> 0]

NoLoc == [op |-> "", toDel |-> <<>>, toAdd |-> <<>>, key |-> <<0, 0>>,
          newTables |-> <<>>, removed |-> {}, out |-> <<>>, i |-> 0,
          n |-> 0, ret |-> NoValue, ok |-> FALSE, err |-> FALSE]

Alive(t) == ref[t] > 0
CanIncr(t) == Alive(t) /\ ref[t] < MaxRef

\* What the caller of an operation that adds tables guarantees: the tables are
\* new to the level; on level >= 1 their ranges are disjoint from each other
\* and from the tables that stay, on level 0 they are newer than the tables
\* of the level.
MayAdd(added, kept) ==
    /\ added \cap kept = {}
    /\ \A t \in added : CanIncr(t)
    /\ level >= 1 => PairwiseDisjoint(added \cup kept)
    /\ level = 0 => \A t \in added, k \in kept : ID(k) < ID(t)

InitLevel ==
    /\ level \in {0, 1}
    /\ tables = <<>>
    /\ totalSize = 0
    /\ totalStaleSize = 0
    /\ ref = [t \in TableIds |-> 1]
    /\ writer = 0
    /\ readers = {}
    /\ pc = [p \in Procs |-> "idle"]
    /\ loc = [p \in Procs |-> NoLoc]
    /\ calls = 0

\* table.IncrRef / table.DecrRef. DecrRef destroys the table when the count
\* reaches zero, and only that can fail.
IncrRefAll(r, ts) == [t \in TableIds |-> r[t] + Cardinality({i \in DOMAIN ts : ts[i] = t})]
DecrRef(r, t) == [r EXCEPT ![t] = @ - 1]
DecrRefMayFail(r, t) == r[t] - 1 = 0

\* A goroutine is free for an operation before its first and after each one.
Ready(p) == pc[p] \in {"idle", "done"}

\* The operation returns; l holds what it returns.
Finish(p, l) ==
    /\ pc' = [pc EXCEPT ![p] = "done"]
    /\ loc' = [loc EXCEPT ![p] = l]

-----------------------------------------------------------------------------
(* initTables *)

InitTablesSort(lvl, ts) == SortSlice(lvl = 0, ts)

InitTables(p, ts) ==
    /\ Ready(p)
    /\ CanLock
    /\ \A i \in DOMAIN ts : Alive(ts[i])
    /\ level >= 1 => PairwiseDisjoint(Range(ts))
    /\ writer' = p
    /\ pc' = [pc EXCEPT ![p] = "it_assign"]
    /\ loc' = [loc EXCEPT ![p] = [NoLoc EXCEPT !.op = "initTables", !.toAdd = ts]]
    /\ calls' = calls + 1
    /\ UNCHANGED <<level, tables, totalSize, totalStaleSize, ref, readers, miVars, dsVars>>

InitTablesAssign(p) ==
    /\ pc[p] = "it_assign"
    /\ tables' = loc[p].toAdd
    /\ totalSize' = SizeSum(loc[p].toAdd)
    /\ totalStaleSize' = StaleSum(loc[p].toAdd)
    /\ pc' = [pc EXCEPT ![p] = "it_sort"]
    /\ loc' = [loc EXCEPT ![p].toAdd = <<>>]
    /\ UNCHANGED <<level, ref, writer, readers, calls, miVars, dsVars>>

InitTablesSortStep(p) ==
    /\ pc[p] = "it_sort"
    /\ tables' = InitTablesSort(level, tables)
    /\ pc' = [pc EXCEPT ![p] = "it_unlock"]
    /\ UNCHANGED <<level, totalSize, totalStaleSize, ref, writer, readers, loc, calls, miVars, dsVars>>

InitTablesUnlock(p) ==
    /\ pc[p] = "it_unlock"
    /\ writer' = 0
    /\ pc' = [pc EXCEPT ![p] = "done"]
    /\ UNCHANGED <<level, tables, totalSize, totalStaleSize, ref, readers, loc, calls, miVars, dsVars>>

-----------------------------------------------------------------------------
(* deleteTables, replaceTables, decrRefs *)

\* The loop over s.tables: the tables whose id is not in toDelMap are kept.
KeptTables(ts, toDel) == SelectSeq(ts, LAMBDA t : t \notin Range(toDel))
RemovedTables(ts, toDel) == SelectSeq(ts, LAMBDA t : t \in Range(toDel))

\* The loop without its subtractSize.
SubtractedSizeNone(size, ts, toDel) == size

\* subtractSize on every removed table.
SubtractedSize(size, ts, toDel) == size - SizeSum(RemovedTables(ts, toDel))
SubtractedStaleSize(size, ts, toDel) == size - StaleSum(RemovedTables(ts, toDel))

DeleteTablesCanLock == CanLock

DeleteTables(p, toDel) ==
    /\ Ready(p)
    /\ DeleteTablesCanLock
    /\ \A i \in DOMAIN toDel : Alive(toDel[i])
    /\ writer' = p
    /\ pc' = [pc EXCEPT ![p] = "dt_filter"]
    /\ loc' = [loc EXCEPT ![p] = [NoLoc EXCEPT !.op = "deleteTables", !.toDel = toDel]]
    /\ calls' = calls + 1
    /\ UNCHANGED <<level, tables, totalSize, totalStaleSize, ref, readers, miVars, dsVars>>

DeleteTablesFilter(p) ==
    /\ pc[p] = "dt_filter"
    /\ totalSize' = SubtractedSize(totalSize, tables, loc[p].toDel)
    /\ totalStaleSize' = SubtractedStaleSize(totalStaleSize, tables, loc[p].toDel)
    /\ pc' = [pc EXCEPT ![p] = "dt_assign"]
    /\ loc' = [loc EXCEPT ![p].newTables = KeptTables(tables, loc[p].toDel),
                          ![p].removed = Range(RemovedTables(tables, loc[p].toDel))]
    /\ UNCHANGED <<level, tables, ref, writer, readers, calls, miVars, dsVars>>

DeleteTablesAssign(p) ==
    /\ pc[p] = "dt_assign"
    /\ tables' = loc[p].newTables
    /\ pc' = [pc EXCEPT ![p] = "dt_unlock"]
    /\ loc' = [loc EXCEPT ![p].newTables = <<>>]
    /\ UNCHANGED <<level, totalSize, totalStaleSize, ref, writer, readers, calls, miVars, dsVars>>

\* deleteTables with its Unlock deferred to the return.
DeleteTablesUnlockDeferred(p) ==
    /\ pc[p] = "dt_unlock"
    /\ pc' = [pc EXCEPT ![p] = "decr"]
    /\ UNCHANGED <<level, tables, totalSize, totalStaleSize, ref, writer, readers, loc, calls, miVars, dsVars>>

\* s.Unlock(), before decrRefs(toDel).
DeleteTablesUnlock(p) ==
    /\ pc[p] = "dt_unlock"
    /\ writer' = 0
    /\ pc' = [pc EXCEPT ![p] = "decr"]
    /\ UNCHANGED <<level, tables, totalSize, totalStaleSize, ref, readers, loc, calls, miVars, dsVars>>

\* One iteration of the loop of decrRefs(toDel); the first error ends it.
\* loc[p].i counts the DecrRef calls made.
DecrRefsDone(l) == l.i >= Len(l.toDel)

DecrRefs(p) ==
    /\ pc[p] = "decr"
    /\ LET l == loc[p] IN
       IF DecrRefsDone(l)
       THEN /\ Finish(p, l)
            /\ UNCHANGED ref
       ELSE /\ ref' = DecrRef(ref, l.toDel[l.i + 1])
            /\ \E fail \in BOOLEAN :
                 /\ fail => DecrRefMayFail(ref, l.toDel[l.i + 1])
                 /\ IF fail
                    THEN Finish(p, [l EXCEPT !.i = l.i + 1, !.err = TRUE])
                    ELSE /\ loc' = [loc EXCEPT ![p].i = l.i + 1]
                         /\ UNCHANGED pc
    /\ UNCHANGED <<level, tables, totalSize, totalStaleSize, writer, readers, calls, miVars, dsVars>>

\* replaceTables taking only the read lock.
ReplaceTablesCanLockRead == CanRLock

ReplaceTablesCanLock == CanLock

\* replaceTables without its sort.
ReplaceTablesSortNone(ts) == ts

ReplaceTablesSort(ts) == SortSlice(FALSE, ts)

ReplaceTables(p, toDel, toAdd) ==
    /\ Ready(p)
    /\ ReplaceTablesCanLock
    /\ \A i \in DOMAIN toDel : Alive(toDel[i])
    /\ Range(toDel) \cap Range(toAdd) = {}
    /\ MayAdd(Range(toAdd), Range(tables) \ Range(toDel))
    /\ writer' = p
    /\ pc' = [pc EXCEPT ![p] = "rt_filter"]
    /\ loc' = [loc EXCEPT ![p] = [NoLoc EXCEPT !.op = "replaceTables", !.toDel = toDel,
                                                !.toAdd = toAdd]]
    /\ calls' = calls + 1
    /\ UNCHANGED <<level, tables, totalSize, totalStaleSize, ref, readers, miVars, dsVars>>

ReplaceTablesFilter(p) ==
    /\ pc[p] = "rt_filter"
    /\ totalSize' = SubtractedSize(totalSize, tables, loc[p].toDel)
    /\ totalStaleSize' = SubtractedStaleSize(totalStaleSize, tables, loc[p].toDel)
    /\ pc' = [pc EXCEPT ![p] = "rt_add"]
    /\ loc' = [loc EXCEPT ![p].newTables = KeptTables(tables, loc[p].toDel),
                          ![p].removed = Range(RemovedTables(tables, loc[p].toDel))]
    /\ UNCHANGED <<level, tables, ref, writer, readers, calls, miVars, dsVars>>

ReplaceTablesAdd(p) ==
    /\ pc[p] = "rt_add"
    /\ totalSize' = totalSize + SizeSum(loc[p].toAdd)
    /\ totalStaleSize' = totalStaleSize + StaleSum(loc[p].toAdd)
    /\ ref' = IncrRefAll(ref, loc[p].toAdd)
    /\ pc' = [pc EXCEPT ![p] = "rt_assign"]
    /\ loc' = [loc EXCEPT ![p].newTables = @ \o loc[p].toAdd]
    /\ UNCHANGED <<level, tables, writer, readers, calls, miVars, dsVars>>

ReplaceTablesAssign(p) ==
    /\ pc[p] = "rt_assign"
    /\ tables' = loc[p].newTables
    /\ pc' = [pc EXCEPT ![p] = "rt_sort"]
    /\ loc' = [loc EXCEPT ![p].newTables = <<>>]
    /\ UNCHANGED <<level, totalSize, totalStaleSize, ref, writer, readers, calls, miVars, dsVars>>

ReplaceTablesSortStep(p) ==
    /\ pc[p] = "rt_sort"
    /\ tables' = ReplaceTablesSort(tables)
    /\ pc' = [pc EXCEPT ![p] = "rt_unlock"]
    /\ UNCHANGED <<level, totalSize, totalStaleSize, ref, writer, readers, loc, calls, miVars, dsVars>>

ReplaceTablesUnlock(p) ==
    /\ pc[p] = "rt_unlock"
    /\ writer' = 0
    /\ pc' = [pc EXCEPT ![p] = "decr"]
    /\ loc' = [loc EXCEPT ![p].toAdd = <<>>]
    /\ UNCHANGED <<level, tables, totalSize, totalStaleSize, ref, readers, calls, miVars, dsVars>>

-----------------------------------------------------------------------------
(* addTable, sortTables, tryAddLevel0Table *)

AddTable(p, t) ==
    /\ Ready(p)
    /\ CanLock
    /\ MayAdd({t}, Range(tables))
    /\ writer' = p
    /\ pc' = [pc EXCEPT ![p] = "at_body"]
    /\ loc' = [loc EXCEPT ![p] = [NoLoc EXCEPT !.op = "addTable", !.toAdd = <<t>>]]
    /\ calls' = calls + 1
    /\ UNCHANGED <<level, tables, totalSize, totalStaleSize, ref, readers, miVars, dsVars>>

AddTableBody(p) ==
    /\ pc[p] = "at_body"
    /\ LET t == loc[p].toAdd[1] IN
       /\ totalSize' = totalSize + Size(t)
       /\ totalStaleSize' = totalStaleSize + StaleDataSize(t)
       /\ ref' = IncrRefAll(ref, <<t>>)
       /\ tables' = Append(tables, t)
    /\ pc' = [pc EXCEPT ![p] = "at_unlock"]
    /\ UNCHANGED <<level, writer, readers, loc, calls, miVars, dsVars>>

AddTableUnlock(p) ==
    /\ pc[p] = "at_unlock"
    /\ writer' = 0
    /\ pc' = [pc EXCEPT ![p] = "done"]
    /\ UNCHANGED <<level, tables, totalSize, totalStaleSize, ref, readers, loc, calls, miVars, dsVars>>

\* sortTables takes the read lock, and sorts s.tables in place under it.
SortTablesCanLock == CanRLock

SortTablesSort(ts) == SortSlice(FALSE, ts)

SortTables(p) ==
    /\ Ready(p)
    /\ level >= 1
    /\ SortTablesCanLock
    /\ readers' = readers \cup {p}
    /\ pc' = [pc EXCEPT ![p] = "st_sort"]
    /\ loc' = [loc EXCEPT ![p] = [NoLoc EXCEPT !.op = "sortTables"]]
    /\ calls' = calls + 1
    /\ UNCHANGED <<level, tables, totalSize, totalStaleSize, ref, writer, miVars, dsVars>>

SortTablesSortStep(p) ==
    /\ pc[p] = "st_sort"
    /\ tables' = SortTablesSort(tables)
    /\ pc' = [pc EXCEPT ![p] = "st_runlock"]
    /\ UNCHANGED <<level, totalSize, totalStaleSize, ref, writer, readers, loc, calls, miVars, dsVars>>

SortTablesRUnlock(p) ==
    /\ pc[p] = "st_runlock"
    /\ readers' = readers \ {p}
    /\ pc' = [pc EXCEPT ![p] = "done"]
    /\ UNCHANGED <<level, tables, totalSize, totalStaleSize, ref, writer, loc, calls, miVars, dsVars>>

\* The stall test off by one.
StalledLate(ts) == Len(ts) > NumLevelZeroTablesStall

\* The stall test of tryAddLevel0Table.
Stalled(ts) == Len(ts) >= NumLevelZeroTablesStall

TryAddLevel0Table(p, t) ==
    /\ Ready(p)
    /\ level = 0
    /\ CanLock
    /\ MayAdd({t}, Range(tables))
    /\ writer' = p
    /\ pc' = [pc EXCEPT ![p] = "ta_body"]
    /\ loc' = [loc EXCEPT ![p] = [NoLoc EXCEPT !.op = "tryAddLevel0Table", !.toAdd = <<t>>]]
    /\ calls' = calls + 1
    /\ UNCHANGED <<level, tables, totalSize, totalStaleSize, ref, readers, miVars, dsVars>>

TryAddLevel0TableBody(p) ==
    /\ pc[p] = "ta_body"
    /\ LET t == loc[p].toAdd[1] IN
       IF Stalled(tables)
       THEN /\ loc' = [loc EXCEPT ![p].ok = FALSE]
            /\ UNCHANGED <<tables, ref, totalSize, totalStaleSize>>
       ELSE /\ tables' = Append(tables, t)
            /\ ref' = IncrRefAll(ref, <<t>>)
            /\ totalSize' = totalSize + Size(t)
            /\ totalStaleSize' = totalStaleSize + StaleDataSize(t)
            /\ loc' = [loc EXCEPT ![p].ok = TRUE]
    /\ pc' = [pc EXCEPT ![p] = "ta_unlock"]
    /\ UNCHANGED <<level, writer, readers, calls, miVars, dsVars>>

TryAddLevel0TableUnlock(p) ==
    /\ pc[p] = "ta_unlock"
    /\ writer' = 0
    /\ pc' = [pc EXCEPT ![p] = "done"]
    /\ UNCHANGED <<level, tables, totalSize, totalStaleSize, ref, readers, loc, calls, miVars, dsVars>>

-----------------------------------------------------------------------------
(* The read-locked accessors *)

NumTables(p) ==
    /\ Ready(p)
    /\ CanRLock
    /\ readers' = readers \cup {p}
    /\ pc' = [pc EXCEPT ![p] = "nt_read"]
    /\ loc' = [loc EXCEPT ![p] = [NoLoc EXCEPT !.op = "numTables"]]
    /\ calls' = calls + 1
    /\ UNCHANGED <<level, tables, totalSize, totalStaleSize, ref, writer, miVars, dsVars>>

NumTablesRead(p) ==
    /\ pc[p] = "nt_read"
    /\ readers' = readers \ {p}
    /\ Finish(p, [loc[p] EXCEPT !.n = Len(tables)])
    /\ UNCHANGED <<level, tables, totalSize, totalStaleSize, ref, writer, calls, miVars, dsVars>>

GetTotalSize(p) ==
    /\ Ready(p)
    /\ CanRLock
    /\ readers' = readers \cup {p}
    /\ pc' = [pc EXCEPT ![p] = "gs_read"]
    /\ loc' = [loc EXCEPT ![p] = [NoLoc EXCEPT !.op = "getTotalSize"]]
    /\ calls' = calls + 1
    /\ UNCHANGED <<level, tables, totalSize, totalStaleSize, ref, writer, miVars, dsVars>>

GetTotalSizeRead(p) ==
    /\ pc[p] = "gs_read"
    /\ readers' = readers \ {p}
    /\ Finish(p, [loc[p] EXCEPT !.n = totalSize])
    /\ UNCHANGED <<level, tables, totalSize, totalStaleSize, ref, writer, calls, miVars, dsVars>>

GetTotalStaleSize(p) ==
    /\ Ready(p)
    /\ CanRLock
    /\ readers' = readers \cup {p}
    /\ pc' = [pc EXCEPT ![p] = "gss_read"]
    /\ loc' = [loc EXCEPT ![p] = [NoLoc EXCEPT !.op = "getTotalStaleSize"]]
    /\ calls' = calls + 1
    /\ UNCHANGED <<level, tables, totalSize, totalStaleSize, ref, writer, miVars, dsVars>>

GetTotalStaleSizeRead(p) ==
    /\ pc[p] = "gss_read"
    /\ readers' = readers \ {p}
    /\ Finish(p, [loc[p] EXCEPT !.n = totalStaleSize])
    /\ UNCHANGED <<level, tables, totalSize, totalStaleSize, ref, writer, calls, miVars, dsVars>>

-----------------------------------------------------------------------------
(* getTableForKey and get *)

\* sort.Search(len(s.tables), Biggest(i) >= key): a binary search on [i, j).
RECURSIVE SearchBiggest(_, _, _, _)
SearchBiggest(ts, key, i, j) ==
    IF i >= j THEN i
    ELSE LET h == (i + j) \div 2 IN
         IF CompareKeys(Biggest(ts[h + 1]), key) >= 0
         THEN SearchBiggest(ts, key, i, h)
         ELSE SearchBiggest(ts, key, h + 1, j)

\* The tables getTableForKey returns: on level 0 all of them, newest first;
\* on level >= 1 the one the binary search finds, or none.
TablesForKey(lvl, ts, key) ==
    IF lvl = 0 THEN Reverse(ts)
    ELSE LET idx == SearchBiggest(ts, key, 0, Len(ts)) IN
         IF idx >= Len(ts) THEN <<>> ELSE <<ts[idx + 1]>>

\* Iterator.Seek on a table: the index of the first entry >= key, 0 if none.
TableSeek(t, key) ==
    LET hits == {i \in DOMAIN TableKeys(t) : CompareKeys(TableKeys(t)[i], key) >= 0}
    IN IF hits = {} THEN 0 ELSE CHOOSE i \in hits : \A j \in hits : i <= j

\* The loop keeping the last match instead of the newest one.
GetVisitLast(maxVs, th, key) ==
    IF DoesNotHave(th, Hash(ParseKey(key))) THEN maxVs
    ELSE LET pos == TableSeek(th, key) IN
         IF pos = 0 THEN maxVs
         ELSE LET k == TableKeys(th)[pos] IN
              IF SameKey(key, k)
              THEN [Version |-> ParseTs(k), Table |-> th]
              ELSE maxVs

\* One iteration of the loop of get over the candidate table th.
GetVisit(maxVs, th, key) ==
    IF DoesNotHave(th, Hash(ParseKey(key))) THEN maxVs
    ELSE LET pos == TableSeek(th, key) IN
         IF pos = 0 THEN maxVs
         ELSE LET k == TableKeys(th)[pos] IN
              IF SameKey(key, k) /\ maxVs.Version < ParseTs(k)
              THEN [Version |-> ParseTs(k), Table |-> th]
              ELSE maxVs

RECURSIVE GetLoop(_, _, _)
GetLoop(maxVs, out, key) ==
    IF out = <<>> THEN maxVs
    ELSE GetLoop(GetVisit(maxVs, Head(out), key), Tail(out), key)

Get(p, key) ==
    /\ Ready(p)
    /\ CanRLock
    /\ \A i \in DOMAIN tables : ref[tables[i]] < MaxRef
    /\ readers' = readers \cup {p}
    /\ pc' = [pc EXCEPT ![p] = "g_tables"]
    /\ loc' = [loc EXCEPT ![p] = [NoLoc EXCEPT !.op = "get", !.key = key]]
    /\ calls' = calls + 1
    /\ UNCHANGED <<level, tables, totalSize, totalStaleSize, ref, writer, miVars, dsVars>>

\* The body of getTableForKey with its deferred RUnlock, and the loop of get
\* over the tables it returned: the loop reads only its own copy of the list
\* and the tables, which never change.
GetTableForKey(p) ==
    /\ pc[p] = "g_tables"
    /\ LET out == TablesForKey(level, tables, loc[p].key) IN
       /\ ref' = IncrRefAll(ref, out)
       /\ loc' = [loc EXCEPT ![p].out = out,
                             ![p].ret = GetLoop(NoValue, out, loc[p].key)]
    /\ readers' = readers \ {p}
    /\ pc' = [pc EXCEPT ![p] = "g_decr"]
    /\ UNCHANGED <<level, tables, totalSize, totalStaleSize, writer, calls, miVars, dsVars>>

\* One iteration of the release closure; the first error ends it.
\* loc[p].i counts the DecrRef calls made.
GetDecr(p) ==
    /\ pc[p] = "g_decr"
    /\ LET l == loc[p] IN
       IF l.i >= Len(l.out)
       THEN /\ Finish(p, l)
            /\ UNCHANGED ref
       ELSE /\ ref' = DecrRef(ref, l.out[l.i + 1])
            /\ \E fail \in BOOLEAN :
                 /\ fail => DecrRefMayFail(ref, l.out[l.i + 1])
                 /\ IF fail
                    THEN Finish(p, [l EXCEPT !.i = l.i + 1, !.err = TRUE])
                    ELSE /\ loc' = [loc EXCEPT ![p].i = l.i + 1]
                         /\ UNCHANGED pc
    /\ UNCHANGED <<level, tables, totalSize, totalStaleSize, writer, readers, calls, miVars, dsVars>>

-----------------------------------------------------------------------------
(* The specification of the level handler *)

\* No merge iterator is built and no discard file is open.
InitMerge == mi = <<>> /\ mpc = <<>> /\ emitted = <<>>
InitDiscard == lf = <<>> /\ dcall = <<>> /\ dlog = <<>> /\ dmu = 0 /\ dpc = <<>>

Init == InitLevel /\ InitMerge /\ InitDiscard

\* A behaviour starts at most MaxCalls operations.
MayCall == calls < MaxCalls

\* initTables is done during loading, before any other operation.
AtOpen == calls = 0

NextLevel ==
    \/ \E p \in Procs, ts \in SeqsNoRep(TableIds, 0, MaxAdd) : AtOpen /\ InitTables(p, ts)
    \/ \E p \in Procs : InitTablesAssign(p)
    \/ \E p \in Procs : InitTablesSortStep(p)
    \/ \E p \in Procs : InitTablesUnlock(p)
    \/ \E p \in Procs, toDel \in SeqsAsc(TableIds, 1, MaxDel) : MayCall /\ DeleteTables(p, toDel)
    \/ \E p \in Procs : DeleteTablesFilter(p)
    \/ \E p \in Procs : DeleteTablesAssign(p)
    \/ \E p \in Procs : DeleteTablesUnlock(p)
    \/ \E p \in Procs : DecrRefs(p)
    \/ \E p \in Procs, toDel \in SeqsAsc(TableIds, 0, MaxDel),
          toAdd \in SeqsAsc(TableIds, 1, MaxAdd) : MayCall /\ ReplaceTables(p, toDel, toAdd)
    \/ \E p \in Procs : ReplaceTablesFilter(p)
    \/ \E p \in Procs : ReplaceTablesAdd(p)
    \/ \E p \in Procs : ReplaceTablesAssign(p)
    \/ \E p \in Procs : ReplaceTablesSortStep(p)
    \/ \E p \in Procs : ReplaceTablesUnlock(p)
    \/ \E p \in Procs, t \in TableIds : MayCall /\ AddTable(p, t)
    \/ \E p \in Procs : AddTableBody(p)
    \/ \E p \in Procs : AddTableUnlock(p)
    \/ \E p \in Procs : MayCall /\ SortTables(p)
    \/ \E p \in Procs : SortTablesSortStep(p)
    \/ \E p \in Procs : SortTablesRUnlock(p)
    \/ \E p \in Procs, t \in TableIds : MayCall /\ TryAddLevel0Table(p, t)
    \/ \E p \in Procs : TryAddLevel0TableBody(p)
    \/ \E p \in Procs : TryAddLevel0TableUnlock(p)
    \/ \E p \in Procs : MayCall /\ NumTables(p)
    \/ \E p \in Procs : NumTablesRead(p)
    \/ \E p \in Procs : MayCall /\ GetTotalSize(p)
    \/ \E p \in Procs : GetTotalSizeRead(p)
    \/ \E p \in Procs : MayCall /\ GetTotalStaleSize(p)
    \/ \E p \in Procs : GetTotalStaleSizeRead(p)
    \/ \E p \in Procs, key \in AllKeys : MayCall /\ Get(p, key)
    \/ \E p \in Procs : GetTableForKey(p)
    \/ \E p \in Procs : GetDecr(p)

Next == NextLevel

Spec == Init /\ [][Next]_vars

-----------------------------------------------------------------------------
(* overlappingTables *)

\* The tables of the levels the range queries run on.
RangeTableIds == {1, 2, 4, 5}

\* The endpoints of the key ranges: no key, and keys below, inside, between
\* and above the tables.
RangeKeys == {<<>>, <<3, 2>>, <<5, 2>>} \cup {<<u, 1>> : u \in 0..9}

\* sort.Search(len(s.tables), CompareKeys(kr.left, s.tables[i].Biggest()) <= 0)
RECURSIVE SearchLeft(_, _, _, _)
SearchLeft(ts, left, i, j) ==
    IF i >= j THEN i
    ELSE LET h == (i + j) \div 2 IN
         IF CompareKeys(left, Biggest(ts[h + 1])) <= 0
         THEN SearchLeft(ts, left, i, h)
         ELSE SearchLeft(ts, left, h + 1, j)

\* The search that stops at a table whose smallest key is kr.right.
RECURSIVE SearchRightUpTo(_, _, _, _)
SearchRightUpTo(ts, right, i, j) ==
    IF i >= j THEN i
    ELSE LET h == (i + j) \div 2 IN
         IF CompareKeys(right, Smallest(ts[h + 1])) <= 0
         THEN SearchRightUpTo(ts, right, i, h)
         ELSE SearchRightUpTo(ts, right, h + 1, j)

\* sort.Search(len(s.tables), CompareKeys(kr.right, s.tables[i].Smallest()) < 0)
RECURSIVE SearchRight(_, _, _, _)
SearchRight(ts, right, i, j) ==
    IF i >= j THEN i
    ELSE LET h == (i + j) \div 2 IN
         IF CompareKeys(right, Smallest(ts[h + 1])) < 0
         THEN SearchRight(ts, right, i, h)
         ELSE SearchRight(ts, right, h + 1, j)

\* levelHandler.overlappingTables
OverlappingTablesOf(ts, kr) ==
    IF kr.left = <<>> \/ kr.right = <<>> THEN <<0, 0>>
    ELSE <<SearchLeft(ts, kr.left, 0, Len(ts)), SearchRight(ts, kr.right, 0, Len(ts))>>

\* A caller takes the read lock, calls overlappingTables and releases the lock.
OverlappingTables(p, kr) ==
    /\ Ready(p)
    /\ CanRLock
    /\ Finish(p, [NoLoc EXCEPT !.op = "overlappingTables", !.key = kr,
                               !.out = OverlappingTablesOf(tables, kr)])
    /\ UNCHANGED <<level, tables, totalSize, totalStaleSize, ref, writer, readers, calls,
                   miVars, dsVars>>

\* A level >= 1 as initTables leaves it: sorted, with non-overlapping ranges.
InitOverlap ==
    /\ level = 1
    /\ tables \in {ts \in SeqsNoRep(RangeTableIds, 0, Cardinality(RangeTableIds)) :
                      \A i, j \in DOMAIN ts :
                          i < j => CompareKeys(Biggest(ts[i]), Smallest(ts[j])) < 0}
    /\ totalSize = SizeSum(tables)
    /\ totalStaleSize = StaleSum(tables)
    /\ ref = [t \in TableIds \cup RangeTableIds |-> 1]
    /\ writer = 0
    /\ readers = {}
    /\ pc = [p \in Procs |-> "idle"]
    /\ loc = [p \in Procs |-> NoLoc]
    /\ calls = 0
    /\ InitMerge
    /\ InitDiscard

\* The range queries are made by one goroutine.
RangeCaller == CHOOSE p \in Procs : TRUE

NextOverlap ==
    \E left \in RangeKeys, right \in RangeKeys :
        OverlappingTables(RangeCaller, [left |-> left, right |-> right])

SpecOverlap == InitOverlap /\ [][NextOverlap]_vars

-----------------------------------------------------------------------------
(* MergeIterator *)

MaxIters == 3    \* most iterators handed to NewMergeIterator

\* The keys the input iterators are made of, in CompareKeys order.
MergeKeys == << <<1, 2>>, <<1, 1>>, <<2, 1>> >>

\* The sorted key lists: one for each set of positions of MergeKeys.
RECURSIVE KeysAt(_, _)
KeysAt(S, i) ==
    IF i > Len(MergeKeys) THEN <<>>
    ELSE (IF i \in S THEN <<MergeKeys[i]>> ELSE <<>>) \o KeysAt(S, i + 1)

SortedInputs == {KeysAt(S, 1) : S \in SUBSET (1..Len(MergeKeys))}

\* An input iterator over a sorted key list (a table iterator): forward it
\* runs from the first key up, REVERSED from the last key down; Seek goes to
\* the first key >= the given one, REVERSED to the last key <= it.
Leaf(src, keys, rev) == [kind |-> "leaf", src |-> src, keys |-> keys, pos |-> 0, rev |-> rev]
LeafValid(it) == it.pos \in 1..Len(it.keys)
LeafKey(it) == it.keys[it.pos]
LeafNext(it) == [it EXCEPT !.pos = IF it.rev THEN @ - 1 ELSE @ + 1]
LeafRewind(it) == [it EXCEPT !.pos = IF it.rev THEN Len(it.keys) ELSE 1]
LeafSeek(it, key) ==
    LET ge == {i \in DOMAIN it.keys : CompareKeys(it.keys[i], key) >= 0}
        le == {i \in DOMAIN it.keys : CompareKeys(it.keys[i], key) <= 0}
    IN [it EXCEPT !.pos =
           IF it.rev
           THEN (IF le = {} THEN 0 ELSE CHOOSE i \in le : \A j \in le : j <= i)
           ELSE (IF ge = {} THEN Len(it.keys) + 1 ELSE CHOOSE i \in ge : \A j \in ge : i <= j)]

RECURSIVE ItValid(_)
RECURSIVE ItKey(_)
RECURSIVE ItValue(_)
RECURSIVE ItNext(_)
RECURSIVE ItRewind(_)
RECURSIVE ItSeek(_, _)
RECURSIVE NextLoop(_)

\* node.setIterator: a node with no key yet.
SetIterator(iter) == [valid |-> FALSE, key |-> <<>>, iter |-> iter]

\* node.setKey: valid is read from the iterator, key only when it is valid.
SetKey(n) ==
    LET v == ItValid(n.iter)
    IN [valid |-> v, key |-> IF v THEN ItKey(n.iter) ELSE n.key, iter |-> n.iter]

NodeNext(n) == SetKey([n EXCEPT !.iter = ItNext(n.iter)])
NodeRewind(n) == SetKey([n EXCEPT !.iter = ItRewind(n.iter)])
NodeSeek(n, key) == SetKey([n EXCEPT !.iter = ItSeek(n.iter, key)])

Small(m) == IF m.small = "left" THEN m.left ELSE m.right
Bigger(m) == IF m.small = "left" THEN m.right ELSE m.left
SwapSmall(m) == [m EXCEPT !.small = IF @ = "left" THEN "right" ELSE "left"]

\* fix without the swap that brings the smaller key of the other child forward.
FixNoSwap(m) ==
    IF ~Bigger(m).valid THEN m
    ELSE IF ~Small(m).valid THEN SwapSmall(m)
    ELSE LET cmp == CompareKeys(Small(m).key, Bigger(m).key) IN
         IF cmp = 0
         THEN LET n == [m EXCEPT !.right = NodeNext(m.right)]
              IN IF m.small = "right" THEN SwapSmall(n) ELSE n
         ELSE IF cmp < 0
         THEN (IF m.reverse THEN SwapSmall(m) ELSE m)
         ELSE m

\* fix moving the left iterator ahead when both keys are equal.
FixAdvanceLeft(m) ==
    IF ~Bigger(m).valid THEN m
    ELSE IF ~Small(m).valid THEN SwapSmall(m)
    ELSE LET cmp == CompareKeys(Small(m).key, Bigger(m).key) IN
         IF cmp = 0
         THEN LET n == [m EXCEPT !.left = NodeNext(m.left)]
              IN IF m.small = "left" THEN SwapSmall(n) ELSE n
         ELSE IF cmp < 0
         THEN (IF m.reverse THEN SwapSmall(m) ELSE m)
         ELSE (IF m.reverse THEN m ELSE SwapSmall(m))

\* MergeIterator.fix
Fix(m) ==
    IF ~Bigger(m).valid THEN m
    ELSE IF ~Small(m).valid THEN SwapSmall(m)
    ELSE LET cmp == CompareKeys(Small(m).key, Bigger(m).key) IN
         IF cmp = 0
         THEN LET n == [m EXCEPT !.right = NodeNext(m.right)]
              IN IF m.small = "right" THEN SwapSmall(n) ELSE n
         ELSE IF cmp < 0
         THEN (IF m.reverse THEN SwapSmall(m) ELSE m)
         ELSE (IF m.reverse THEN m ELSE SwapSmall(m))

\* mi.small.next()
SmallNext(m) ==
    IF m.small = "left" THEN [m EXCEPT !.left = NodeNext(m.left)]
    ELSE [m EXCEPT !.right = NodeNext(m.right)]

\* setCurrent that leaves curKey as it is.
SetCurrentKeep(m) == m

\* MergeIterator.setCurrent
SetCurrent(m) == [m EXCEPT !.curKey = Small(m).key]

\* The loop of MergeIterator.Next
NextLoop(m) ==
    IF ~Small(m).valid THEN m
    ELSE IF Small(m).key # m.curKey THEN m
    ELSE NextLoop(Fix(SmallNext(m)))

MergeNext(m) == SetCurrent(NextLoop(m))
MergeRewind(m) ==
    SetCurrent(Fix([m EXCEPT !.left = NodeRewind(m.left), !.right = NodeRewind(m.right)]))

\* Seek without the fix after seeking the children.
MergeSeekNoFix(m, key) ==
    SetCurrent([m EXCEPT !.left = NodeSeek(m.left, key), !.right = NodeSeek(m.right, key)])

MergeSeek(m, key) ==
    SetCurrent(Fix([m EXCEPT !.left = NodeSeek(m.left, key), !.right = NodeSeek(m.right, key)]))

\* The y.Iterator methods, on a MergeIterator or on an input iterator.
ItValid(it) == IF it.kind = "leaf" THEN LeafValid(it) ELSE Small(it).valid
ItKey(it) == IF it.kind = "leaf" THEN LeafKey(it) ELSE Small(it).key
ItValue(it) == IF it.kind = "leaf" THEN it.src ELSE ItValue(Small(it).iter)
ItNext(it) == IF it.kind = "leaf" THEN LeafNext(it) ELSE MergeNext(it)
ItRewind(it) == IF it.kind = "leaf" THEN LeafRewind(it) ELSE MergeRewind(it)
ItSeek(it, key) == IF it.kind = "leaf" THEN LeafSeek(it, key) ELSE MergeSeek(it, key)

\* NewMergeIterator
RECURSIVE NewMergeIterator(_, _)
NewMergeIterator(iters, reverse) ==
    IF Len(iters) = 1 THEN iters[1]
    ELSE IF Len(iters) = 2
    THEN [kind |-> "merge", left |-> SetIterator(iters[1]), right |-> SetIterator(iters[2]),
          small |-> "left", curKey |-> <<>>, reverse |-> reverse]
    ELSE LET mid == Len(iters) \div 2 IN
         NewMergeIterator(<<NewMergeIterator(SubSeq(iters, 1, mid), reverse),
                            NewMergeIterator(SubSeq(iters, mid + 1, Len(iters)), reverse)>>,
                          reverse)

\* The caller of the iterator: what it called last, in what state the
\* iterator was then, whether it has only called Next since the last Rewind,
\* and the keys it has read since then.
Called(op, key, scan) ==
    [op |-> op, key |-> key, scan |-> scan,
     from |-> IF mpc.op = "New" THEN "fresh"
              ELSE IF ItValid(mi) THEN "mid" ELSE "exhausted"]

InitMergeIterator ==
    /\ \E n \in 2..MaxIters, reverse \in BOOLEAN :
         \E ins \in [1..n -> SortedInputs] :
            mi = NewMergeIterator([i \in 1..n |-> Leaf(i, ins[i], reverse)], reverse)
    /\ mpc = [op |-> "New", key |-> <<>>, scan |-> FALSE, from |-> "fresh"]
    /\ emitted = <<>>

Read(m) == IF ItValid(m) THEN <<ItKey(m)>> ELSE <<>>

Rewind ==
    /\ mi' = MergeRewind(mi)
    /\ mpc' = Called("Rewind", <<>>, TRUE)
    /\ emitted' = Read(mi')
    /\ UNCHANGED <<lhVars, dsVars>>

NextKey ==
    /\ ItValid(mi)
    /\ mi' = MergeNext(mi)
    /\ mpc' = Called("Next", <<>>, mpc.scan)
    /\ emitted' = emitted \o Read(mi')
    /\ UNCHANGED <<lhVars, dsVars>>

Seek(key) ==
    /\ mi' = MergeSeek(mi, key)
    /\ mpc' = Called("Seek", key, FALSE)
    /\ emitted' = Read(mi')
    /\ UNCHANGED <<lhVars, dsVars>>

InitM == InitLevel /\ level = 0 /\ InitMergeIterator /\ InitDiscard

NextMerge ==
    \/ Rewind
    \/ NextKey
    \/ \E i \in DOMAIN MergeKeys : Seek(MergeKeys[i])

SpecMerge == InitM /\ [][NextMerge]_vars

-----------------------------------------------------------------------------
(* discardStats *)

InitialSlots == 2    \* slots of the file when it is created (1<<20 bytes in the code)
MaxUpdates == 4      \* most Update calls of a behaviour

Fids == {0, 1, 2, 3}
Discards == {-1, 0, 1, 2}

\* A slot of the file: 8 bytes of fid, 8 bytes of discard.
Slot(fid, discard) == [fid |-> fid, discard |-> discard]
ZeroSlot == Slot(0, 0)

\* lf.maxSlot
maxSlot(f) == Len(f.Data)

\* lf.zeroOut: zero the slot at nextEmptySlot.
zeroOut(f) == [f EXCEPT !.Data[f.nextEmptySlot + 1] = ZeroSlot]

\* lf.Truncate(2 * len(lf.Data)): the file grows, the new half reads zero.
Truncate(f) == [f EXCEPT !.Data = @ \o [i \in 1..Len(@) |-> ZeroSlot]]

\* The growth one slot late.
GrowLate(f) == IF f.nextEmptySlot > maxSlot(f) THEN Truncate(f) ELSE f

\* for lf.nextEmptySlot >= lf.maxSlot() { lf.Truncate(...) }
RECURSIVE Grow(_)
Grow(f) == IF f.nextEmptySlot >= maxSlot(f) THEN Grow(Truncate(f)) ELSE f

\* sort.Search(n, func(slot) { return lf.get(slot*16) >= fid }) on [i, j)
RECURSIVE SearchFid(_, _, _, _)
SearchFid(f, fid, i, j) ==
    IF i >= j THEN i
    ELSE LET h == (i + j) \div 2 IN
         IF f.Data[h + 1].fid >= fid
         THEN SearchFid(f, fid, i, h)
         ELSE SearchFid(f, fid, h + 1, j)

\* sort.Sort(lf): the slots below nextEmptySlot, by fid ascending.
RECURSIVE InsertSlot(_, _)
InsertSlot(s, x) ==
    IF s = <<>> THEN <<x>>
    ELSE IF x.fid < s[Len(s)].fid
    THEN InsertSlot(SubSeq(s, 1, Len(s) - 1), x) \o <<s[Len(s)]>>
    ELSE s \o <<x>>

RECURSIVE SortSlots(_)
SortSlots(s) ==
    IF s = <<>> THEN <<>>
    ELSE InsertSlot(SortSlots(SubSeq(s, 1, Len(s) - 1)), s[Len(s)])

\* The file left as it is.
SortStatsNone(f) == f

SortStats(f) ==
    [f EXCEPT !.Data = SortSlots(SubSeq(@, 1, f.nextEmptySlot))
                         \o SubSeq(@, f.nextEmptySlot + 1, Len(@))]

\* InitDiscardStats on a directory without a DISCARD file.
NewDiscardStats ==
    SortStats(zeroOut([Data |-> [i \in 1..InitialSlots |-> ZeroSlot], nextEmptySlot |-> 0]))

\* Update when the fid has a slot, at idx.
UpdateFound(f, idx, discard) ==
    LET curDisc == f.Data[idx + 1].discard IN
    IF discard = 0 THEN [lf |-> f, ret |-> curDisc]
    ELSE IF discard < 0
    THEN [lf |-> [f EXCEPT !.Data[idx + 1].discard = 0], ret |-> 0]
    ELSE [lf |-> [f EXCEPT !.Data[idx + 1].discard = curDisc + discard],
          ret |-> curDisc + discard]

\* Update when the fid has no slot, without the test of the discard.
UpdateAppendAlways(f, fid, discard) ==
    LET set == [f EXCEPT !.Data[f.nextEmptySlot + 1] = Slot(fid, discard)]
        moved == [set EXCEPT !.nextEmptySlot = @ + 1]
    IN [lf |-> SortStats(zeroOut(Grow(moved))), ret |-> discard]

\* Update when the fid has no slot.
UpdateAppend(f, fid, discard) ==
    IF discard <= 0 THEN [lf |-> f, ret |-> 0]
    ELSE LET set == [f EXCEPT !.Data[f.nextEmptySlot + 1] = Slot(fid, discard)]
             moved == [set EXCEPT !.nextEmptySlot = @ + 1]
         IN [lf |-> SortStats(zeroOut(Grow(moved))), ret |-> discard]

\* discardStats.Update: the file after the call, and the value returned.
UpdateStats(f, fid, discard) ==
    LET idx == SearchFid(f, fid, 0, f.nextEmptySlot) IN
    IF idx < f.nextEmptySlot /\ f.Data[idx + 1].fid = fid
    THEN UpdateFound(f, idx, discard)
    ELSE UpdateAppend(f, fid, discard)

\* discardStats.Iterate: the calls of f, in order.
IterateStats(f) == SubSeq(f.Data, 1, f.nextEmptySlot)

\* The loop of MaxDiscard taking a later slot on a tie.
RECURSIVE MaxDiscardLoopLast(_, _, _)
MaxDiscardLoopLast(visits, maxFid, maxVal) ==
    IF visits = <<>> THEN <<maxFid, maxVal>>
    ELSE IF maxVal <= Head(visits).discard
    THEN MaxDiscardLoopLast(Tail(visits), Head(visits).fid, Head(visits).discard)
    ELSE MaxDiscardLoopLast(Tail(visits), maxFid, maxVal)

\* discardStats.MaxDiscard
RECURSIVE MaxDiscardLoop(_, _, _)
MaxDiscardLoop(visits, maxFid, maxVal) ==
    IF visits = <<>> THEN <<maxFid, maxVal>>
    ELSE IF maxVal < Head(visits).discard
    THEN MaxDiscardLoop(Tail(visits), Head(visits).fid, Head(visits).discard)
    ELSE MaxDiscardLoop(Tail(visits), maxFid, maxVal)

\* A goroutine that runs no method of discardStats, and one inside a method:
\* where it is, its arguments fid and discard, and its locals idx (Update),
\* slot and the calls of f made so far (Iterate), and the value to return.
Idle ==
    [at |-> "idle", fid |-> 0, discard |-> 0, idx |-> 0, slot |-> 0, visits |-> <<>>, ret |-> 0]
At(at, fid, discard, idx) ==
    [at |-> at, fid |-> fid, discard |-> discard, idx |-> idx, slot |-> 0, visits |-> <<>>,
     ret |-> 0]

\* The last call on the discard stats and what it gave.
DCall(op, fid, discard, ret, visits) ==
    [op |-> op, fid |-> fid, discard |-> discard, ret |-> ret, visits |-> visits]

InitDiscardStats ==
    /\ lf = NewDiscardStats
    /\ dcall = DCall("InitDiscardStats", 0, 0, 0, <<>>)
    /\ dlog = <<>>
    /\ dmu = 0
    /\ dpc = [p \in Procs |-> Idle]

Update(fid, discard) ==
    /\ Len(dlog) < MaxUpdates
    /\ LET r == UpdateStats(lf, fid, discard) IN
         /\ lf' = r.lf
         /\ dcall' = DCall("Update", fid, discard, r.ret, <<>>)
    /\ dlog' = Append(dlog, Slot(fid, discard))
    /\ UNCHANGED <<dmu, dpc, lhVars, miVars>>

Iterate ==
    /\ dcall' = DCall("Iterate", 0, 0, 0, IterateStats(lf))
    /\ UNCHANGED <<lf, dlog, dmu, dpc, lhVars, miVars>>

MaxDiscard ==
    /\ dcall' = DCall("MaxDiscard", 0, 0, MaxDiscardLoop(IterateStats(lf), 0, 0), <<>>)
    /\ UNCHANGED <<lf, dlog, dmu, dpc, lhVars, miVars>>

InitD == InitLevel /\ level = 0 /\ InitMerge /\ InitDiscardStats

NextDiscard ==
    \/ \E fid \in Fids, discard \in Discards : Update(fid, discard)
    \/ Iterate
    \/ MaxDiscard

SpecDiscard == InitD /\ [][NextDiscard]_vars

\* The scan of InitDiscardStats: the first slot whose fid is 0, and 0 when
\* there is none.
RECURSIVE FirstEmptySlot(_, _)
FirstEmptySlot(f, slot) ==
    IF slot >= maxSlot(f) THEN 0
    ELSE IF f.Data[slot + 1].fid = 0 THEN slot
    ELSE FirstEmptySlot(f, slot + 1)

\* InitDiscardStats on a directory that holds the DISCARD file: the file is
\* mapped with the length and the contents it has.
OpenDiscardStats(data) ==
    LET f == [Data |-> data, nextEmptySlot |-> 0]
    IN SortStats([f EXCEPT !.nextEmptySlot = FirstEmptySlot(f, 0)])

\* The file is closed and opened again; the call keeps what Iterate gave
\* before the close.
Reopen ==
    /\ lf' = OpenDiscardStats(lf.Data)
    /\ dcall' = DCall("InitDiscardStats", 0, 0, 0, IterateStats(lf))
    /\ UNCHANGED <<dlog, dmu, dpc, lhVars, miVars>>

NextReopen ==
    \/ \E fid \in Fids, discard \in Discards : Update(fid, discard)
    \/ Iterate
    \/ MaxDiscard
    \/ Reopen

\* discardStats over restarts.
SpecReopen == InitD /\ [][NextReopen]_vars

-----------------------------------------------------------------------------
(* discardStats shared by goroutines: the methods statement by statement *)

MaxSharedUpdates == 2    \* most Update calls of a behaviour with two goroutines

\* Update: lf.Lock()
UpdateLock(p, fid, discard) ==
    /\ dpc[p].at = "idle"
    /\ Len(dlog) < MaxSharedUpdates
    /\ dmu = 0
    /\ dmu' = p
    /\ dpc' = [dpc EXCEPT ![p] = At("u_search", fid, discard, 0)]
    /\ dlog' = Append(dlog, Slot(fid, discard))
    /\ UNCHANGED <<lf, dcall, lhVars, miVars>>

\* Update: the search, and the branch taken; the two returns that write
\* nothing are taken here.
UpdateSearch(p) ==
    /\ dpc[p].at = "u_search"
    /\ LET idx == SearchFid(lf, dpc[p].fid, 0, lf.nextEmptySlot)
           found == idx < lf.nextEmptySlot /\ lf.Data[idx + 1].fid = dpc[p].fid
       IN dpc' = [dpc EXCEPT ![p].idx = IF found THEN idx ELSE lf.nextEmptySlot,
                             ![p].at = IF found THEN "u_found"
                                       ELSE IF dpc[p].discard <= 0 THEN "u_unlock"
                                       ELSE "u_fid"]
    /\ UNCHANGED <<lf, dcall, dlog, dmu, lhVars, miVars>>

\* Update, the fid has a slot: the write of the discard, if any.
UpdateSetFound(p) ==
    /\ dpc[p].at = "u_found"
    /\ LET r == UpdateFound(lf, dpc[p].idx, dpc[p].discard) IN
         /\ lf' = r.lf
         /\ dpc' = [dpc EXCEPT ![p].at = "u_unlock", ![p].ret = r.ret]
    /\ UNCHANGED <<dcall, dlog, dmu, lhVars, miVars>>

\* Update: lf.set(idx*16, fid)
UpdateSetFid(p) ==
    /\ dpc[p].at = "u_fid"
    /\ lf' = [lf EXCEPT !.Data[dpc[p].idx + 1].fid = dpc[p].fid]
    /\ dpc' = [dpc EXCEPT ![p].at = "u_discard"]
    /\ UNCHANGED <<dcall, dlog, dmu, lhVars, miVars>>

\* Update: lf.set(idx*16+8, uint64(discard))
UpdateSetDiscard(p) ==
    /\ dpc[p].at = "u_discard"
    /\ lf' = [lf EXCEPT !.Data[dpc[p].idx + 1].discard = dpc[p].discard]
    /\ dpc' = [dpc EXCEPT ![p].at = "u_move"]
    /\ UNCHANGED <<dcall, dlog, dmu, lhVars, miVars>>

\* Update: lf.nextEmptySlot++
UpdateMove(p) ==
    /\ dpc[p].at = "u_move"
    /\ lf' = [lf EXCEPT !.nextEmptySlot = @ + 1]
    /\ dpc' = [dpc EXCEPT ![p].at = "u_grow"]
    /\ UNCHANGED <<dcall, dlog, dmu, lhVars, miVars>>

\* Update: the growth loop
UpdateGrow(p) ==
    /\ dpc[p].at = "u_grow"
    /\ lf' = Grow(lf)
    /\ dpc' = [dpc EXCEPT ![p].at = "u_zero"]
    /\ UNCHANGED <<dcall, dlog, dmu, lhVars, miVars>>

\* Update: lf.zeroOut()
UpdateZeroOut(p) ==
    /\ dpc[p].at = "u_zero"
    /\ lf' = zeroOut(lf)
    /\ dpc' = [dpc EXCEPT ![p].at = "u_sort"]
    /\ UNCHANGED <<dcall, dlog, dmu, lhVars, miVars>>

\* Update: sort.Sort(lf)
UpdateSort(p) ==
    /\ dpc[p].at = "u_sort"
    /\ lf' = SortStats(lf)
    /\ dpc' = [dpc EXCEPT ![p].at = "u_unlock", ![p].ret = dpc[p].discard]
    /\ UNCHANGED <<dcall, dlog, dmu, lhVars, miVars>>

\* Update: the return and the deferred lf.Unlock()
UpdateUnlock(p) ==
    /\ dpc[p].at = "u_unlock"
    /\ dmu' = 0
    /\ dcall' = DCall("Update", dpc[p].fid, dpc[p].discard, dpc[p].ret, <<>>)
    /\ dpc' = [dpc EXCEPT ![p] = Idle]
    /\ UNCHANGED <<lf, dlog, lhVars, miVars>>

\* Iterate called by a goroutine: it takes no lock.
IterateBegin(p) ==
    /\ dpc[p].at = "idle"
    /\ dpc' = [dpc EXCEPT ![p] = At("i_loop", 0, 0, 0)]
    /\ UNCHANGED <<lf, dcall, dlog, dmu, lhVars, miVars>>

\* Iterate: one turn of the loop, or its end.
IterateSlot(p) ==
    /\ dpc[p].at = "i_loop"
    /\ IF dpc[p].slot < lf.nextEmptySlot
       THEN /\ dpc' = [dpc EXCEPT ![p].slot = @ + 1,
                                  ![p].visits = Append(@, lf.Data[dpc[p].slot + 1])]
            /\ UNCHANGED dcall
       ELSE /\ dpc' = [dpc EXCEPT ![p] = Idle]
            /\ dcall' = DCall("Iterate", 0, 0, 0, dpc[p].visits)
    /\ UNCHANGED <<lf, dlog, dmu, lhVars, miVars>>

\* MaxDiscard: lf.Lock()
MaxDiscardLock(p) ==
    /\ dpc[p].at = "idle"
    /\ dmu = 0
    /\ dmu' = p
    /\ dpc' = [dpc EXCEPT ![p] = At("m_scan", 0, 0, 0)]
    /\ UNCHANGED <<lf, dcall, dlog, lhVars, miVars>>

\* MaxDiscard: the scan, the return and the deferred lf.Unlock()
MaxDiscardUnlock(p) ==
    /\ dpc[p].at = "m_scan"
    /\ dmu' = 0
    /\ dcall' = DCall("MaxDiscard", 0, 0, MaxDiscardLoop(IterateStats(lf), 0, 0), <<>>)
    /\ dpc' = [dpc EXCEPT ![p] = Idle]
    /\ UNCHANGED <<lf, dlog, lhVars, miVars>>

NextShared ==
    \/ \E p \in Procs, fid \in Fids, discard \in Discards : UpdateLock(p, fid, discard)
    \/ \E p \in Procs : UpdateSearch(p)
    \/ \E p \in Procs : UpdateSetFound(p)
    \/ \E p \in Procs : UpdateSetFid(p)
    \/ \E p \in Procs : UpdateSetDiscard(p)
    \/ \E p \in Procs : UpdateMove(p)
    \/ \E p \in Procs : UpdateGrow(p)
    \/ \E p \in Procs : UpdateZeroOut(p)
    \/ \E p \in Procs : UpdateSort(p)
    \/ \E p \in Procs : UpdateUnlock(p)
    \/ \E p \in Procs : IterateBegin(p)
    \/ \E p \in Procs : IterateSlot(p)
    \/ \E p \in Procs : MaxDiscardLock(p)
    \/ \E p \in Procs : MaxDiscardUnlock(p)

SpecShared == InitD /\ [][NextShared]_vars

\* Level 0 filled only through tryAddLevel0Table, and emptied by deleteTables.
MaxStallCalls == 5

InitStall == Init /\ level = 0

NextStall ==
    \/ \E p \in Procs, t \in TableIds :
          calls < MaxStallCalls /\ TryAddLevel0Table(p, t)
    \/ \E p \in Procs : TryAddLevel0TableBody(p)
    \/ \E p \in Procs : TryAddLevel0TableUnlock(p)
    \/ \E p \in Procs, toDel \in SeqsAsc(TableIds, 1, MaxDel) :
          calls < MaxStallCalls /\ DeleteTables(p, toDel)
    \/ \E p \in Procs : DeleteTablesFilter(p)
    \/ \E p \in Procs : DeleteTablesAssign(p)
    \/ \E p \in Procs : DeleteTablesUnlock(p)
    \/ \E p \in Procs : DecrRefs(p)

SpecStall == InitStall /\ [][NextStall]_vars

-----------------------------------------------------------------------------
(* Properties of the level handler *)

\* The positions at which a goroutine holds the lock, for writing or reading.
WriteLocked == {"it_assign", "it_sort", "it_unlock", "dt_filter", "dt_assign", "dt_unlock",
                "rt_filter", "rt_add", "rt_assign", "rt_sort", "rt_unlock",
                "at_body", "at_unlock", "ta_body", "ta_unlock"}
ReadLocked == {"st_sort", "st_runlock", "nt_read", "gs_read", "gss_read", "g_tables"}
InReplace == {"rt_filter", "rt_add", "rt_assign", "rt_sort", "rt_unlock"}
Observing == {"nt_read", "gs_read", "gss_read", "g_tables"}

SizesMatch == totalSize = SizeSum(tables) /\ totalStaleSize = StaleSum(tables)

\* Sorted by smallest() strictly ascending, with non-overlapping ranges.
SortedDisjoint(ts) ==
    \A i, j \in DOMAIN ts : i < j => CompareKeys(Biggest(ts[i]), Smallest(ts[j])) < 0

IdAscending(ts) == \A i, j \in DOMAIN ts : i < j => ID(ts[i]) < ID(ts[j])

\* C1: replaceTables is atomic. While a replaceTables is between its Lock and
\* its Unlock no other goroutine holds the lock, so none reads the table list
\* or the sizes; what a reader holding the read lock sees is a list with the
\* sizes that belong to it; and when replaceTables is about to unlock, the
\* list holds every table of toAdd and none of the removed ones, and totalSize
\* and totalStaleSize are the sums over that list.
C1_ReplaceAtomic ==
    \A p \in Procs :
        /\ pc[p] \in InReplace =>
              /\ writer = p
              /\ readers = {}
              /\ \A q \in Procs \ {p} : pc[q] \notin WriteLocked \cup ReadLocked
        /\ pc[p] \in Observing => writer = 0 /\ SizesMatch
        /\ pc[p] = "rt_unlock" =>
              /\ Range(loc[p].toAdd) \subseteq Range(tables)
              /\ Range(tables) \cap loc[p].removed = {}
              /\ SizesMatch

\* C1 witness: a replaceTables has subtracted the sizes of the removed tables
\* and not yet added toAdd, while the other goroutine is inside a get whose
\* table snapshot was taken before.
C1_Witness ==
    \E p, q \in Procs :
        /\ pc[p] = "rt_add"
        /\ loc[p].removed # {}
        /\ loc[p].toAdd # <<>>
        /\ ~SizesMatch
        /\ pc[q] = "g_decr"
        /\ loc[q].out # <<>>

\* C2: whenever the lock is not write-held, totalSize is the sum of size()
\* and totalStaleSize the sum of staleDataSize() over the tables of the level.
C2_SizesMatch == writer = 0 => SizesMatch

\* C2 witness: a deleteTables whose toDel named a table of the level and a
\* table not in the level has returned, and the level is not empty.
C2_Witness ==
    \E p \in Procs :
        /\ pc[p] = "done"
        /\ loc[p].op = "deleteTables"
        /\ loc[p].removed # {}
        /\ Range(loc[p].toDel) \ loc[p].removed # {}
        /\ tables # <<>>
        /\ writer = 0

\* C3 as stated: on level >= 1 the list is sorted with non-overlapping ranges
\* whenever the lock is not write-held.
C3_AlwaysSorted == (level >= 1 /\ writer = 0) => SortedDisjoint(tables)

\* C3 as amended: on level >= 1 the list is sorted with non-overlapping ranges
\* when initTables, replaceTables or sortTables has done its sort, and the
\* only steps that take a sorted list to an unsorted one are the append of
\* addTable and the assignments inside initTables and replaceTables that
\* their sort follows; deleteTables keeps a sorted list sorted.
C3_SortedUnlessAdded ==
    /\ [](level >= 1 =>
            \A p \in Procs :
                pc[p] \in {"it_unlock", "rt_unlock", "st_runlock"} => SortedDisjoint(tables))
    /\ [][(level >= 1 /\ SortedDisjoint(tables) /\ ~SortedDisjoint(tables')) =>
            \E p \in Procs :
                /\ pc[p] \in {"at_body", "it_assign", "rt_assign"}
                /\ pc'[p] # pc[p]]_vars

\* C3 witness: replaceTables has sorted a table it appended to the front.
C3_Witness ==
    \E p \in Procs :
        /\ level >= 1
        /\ pc[p] = "rt_unlock"
        /\ Len(tables) = 2
        /\ tables[1] \in Range(loc[p].toAdd)
        /\ tables[2] \notin Range(loc[p].toAdd)

\* C4: on level 0 the list is ordered by table id ascending whenever the lock
\* is not write-held (the tables added are newer than those present).
C4_L0ByIdAscending == (level = 0 /\ writer = 0) => IdAscending(tables)

\* The newest version of user key u, not above version v, in the tables ts.
VersionsUpTo(ts, u, v) ==
    {e[2] : e \in {k \in UNION {Range(TableKeys(ts[i])) : i \in DOMAIN ts} :
                      k[1] = u /\ k[2] <= v}}
MaxOf(S) == IF S = {} THEN 0 ELSE CHOOSE x \in S : \A y \in S : y <= x
Stored(ts, key) == \E i \in DOMAIN ts : key \in Range(TableKeys(ts[i]))

\* The version get returns in the step of goroutine p that runs
\* getTableForKey and the loop, for a level whose list readers may use.
GetStep(p) == pc[p] = "g_tables" /\ pc'[p] = "g_decr"
Readable == level = 0 \/ SortedDisjoint(tables)

\* C5 as stated: for a key stored in the level, get returns the maximum
\* version among all entries with the key's user key in the level.
C5_MaxOfAllVersions ==
    [][\A p \in Procs :
          (GetStep(p) /\ Readable /\ Stored(tables, loc[p].key)) =>
              loc'[p].ret.Version = MaxOf(VersionsUpTo(tables, ParseKey(loc[p].key), 1000))]_vars

\* C5 as amended: get(k) returns the maximum version not above the version of
\* k among the entries with k's user key in all tables of the level (0 when
\* there is none); for a key stored in the level that is the version of k.
\* On level >= 1 the list must be sorted, as it is for readers.
C5_MaxVersionUpToKey ==
    [][\A p \in Procs :
          (GetStep(p) /\ Readable) =>
              /\ loc'[p].ret.Version =
                    MaxOf(VersionsUpTo(tables, ParseKey(loc[p].key), ParseTs(loc[p].key)))
              /\ Stored(tables, loc[p].key) => loc'[p].ret.Version = ParseTs(loc[p].key)]_vars

\* C5 witness: on level 0 a get of a key has looked into two tables, found an
\* older version of the user key in one and the key itself in the other, and
\* the level holds a newer version of the user key than the one asked for.
C5_Witness ==
    \E p \in Procs :
        /\ level = 0
        /\ pc[p] = "g_decr"
        /\ loc[p].i = 0
        /\ Len(loc[p].out) = 2
        /\ loc[p].out = Reverse(tables)
        /\ loc[p].key = <<3, 2>>
        /\ loc[p].ret.Version = 2
        /\ MaxOf(VersionsUpTo(tables, 3, 1000)) = 3
        /\ MaxOf(VersionsUpTo(<<loc[p].out[2]>>, 3, 2)) = 1

\* C6: when deleteTables or replaceTables has returned, it has called DecrRef
\* exactly once on every table it removed from the level.
C6_RemovedReleasedOnce ==
    \A p \in Procs :
        (pc[p] = "done" /\ loc[p].op \in {"deleteTables", "replaceTables"}) =>
            \A t \in loc[p].removed :
                Cardinality({j \in 1..loc[p].i : loc[p].toDel[j] = t}) = 1

\* C7: tryAddLevel0Table returns true exactly when the level holds fewer than
\* NumLevelZeroTablesStall tables; then the table is appended at the back, its
\* reference count is one more and its sizes are added; otherwise nothing
\* changes. A level 0 filled only by it never holds more tables than that.
C7_StallAtLimit ==
    /\ [](Len(tables) <= NumLevelZeroTablesStall)
    /\ [][\A p \in Procs :
            (pc[p] = "ta_body" /\ pc'[p] = "ta_unlock") =>
               LET t == loc[p].toAdd[1] IN
               /\ loc'[p].ok = (Len(tables) < NumLevelZeroTablesStall)
               /\ loc'[p].ok =>
                     /\ tables' = Append(tables, t)
                     /\ ref' = [ref EXCEPT ![t] = @ + 1]
                     /\ totalSize' = totalSize + Size(t)
                     /\ totalStaleSize' = totalStaleSize + StaleDataSize(t)
               /\ ~loc'[p].ok =>
                     UNCHANGED <<tables, ref, totalSize, totalStaleSize>>]_vars

\* C7 witness: a tryAddLevel0Table has returned true and filled the level to
\* the limit again, after a deleteTables had brought it below the limit.
C7_Witness ==
    \E p, q \in Procs :
        /\ pc[p] = "ta_unlock"
        /\ loc[p].ok
        /\ Len(tables) = NumLevelZeroTablesStall
        /\ pc[q] = "done"
        /\ loc[q].op = "deleteTables"
        /\ loc[q].removed # {}
        /\ calls >= 4

-----------------------------------------------------------------------------
(* MergeIterator: properties *)

\* The keys of all the inputs of an iterator.
RECURSIVE InputKeys(_)
InputKeys(it) ==
    IF it.kind = "leaf" THEN Range(it.keys)
    ELSE InputKeys(it.left.iter) \cup InputKeys(it.right.iter)

\* The number of inputs of an iterator, and of keys in them, copies counted.
RECURSIVE NumInputs(_)
NumInputs(it) ==
    IF it.kind = "leaf" THEN 1 ELSE NumInputs(it.left.iter) + NumInputs(it.right.iter)

RECURSIVE NumInputKeys(_)
NumInputKeys(it) ==
    IF it.kind = "leaf" THEN Len(it.keys)
    ELSE NumInputKeys(it.left.iter) + NumInputKeys(it.right.iter)

\* The least key of a non-empty set, and the set in ascending order.
LeastKey(S) == CHOOSE x \in S : \A y \in S : CompareKeys(x, y) <= 0

RECURSIVE Ascending(_)
Ascending(S) ==
    IF S = {} THEN <<>> ELSE <<LeastKey(S)>> \o Ascending(S \ {LeastKey(S)})

\* What a full scan of the iterator has to read.
SortedUnion(it) ==
    IF it.reverse THEN Reverse(Ascending(InputKeys(it))) ELSE Ascending(InputKeys(it))

IsPrefix(s, t) == Len(s) <= Len(t) /\ s = SubSeq(t, 1, Len(s))

\* C8: Rewind followed by Next until the iterator is invalid reads the union
\* of the keys of the inputs, each full key once, ascending in forward mode
\* and descending in reverse mode: while the scan runs the keys read are the
\* first ones of that order, and when it ends they are all of them.
C8_ScanIsSortedUnion ==
    mpc.scan =>
        /\ IsPrefix(emitted, SortedUnion(mi))
        /\ ~ItValid(mi) => emitted = SortedUnion(mi)

\* C8 witness: a reverse scan of three inputs that share a key has ended,
\* and has read two versions of one user key.
C8_Witness ==
    /\ mpc.scan /\ mpc.op = "Next" /\ ~ItValid(mi)
    /\ mi.reverse
    /\ NumInputs(mi) = 3
    /\ NumInputKeys(mi) > Len(emitted)
    /\ \E i, j \in DOMAIN emitted : i # j /\ SameKey(emitted[i], emitted[j])

\* C9: on a forward iterator, after Seek(k), whatever was called before, the
\* iterator is valid iff some input holds a key >= k, its key is then the
\* least of these, and a second Seek(k) leaves the iterator where it is.
C9_SeekLeastNotBelow ==
    (mpc.op = "Seek" /\ ~mi.reverse) =>
        LET ge == {x \in InputKeys(mi) : CompareKeys(x, mpc.key) >= 0}
            again == MergeSeek(mi, mpc.key)
        IN /\ ItValid(mi) <=> ge # {}
           /\ ItValid(mi) => ItKey(mi) = LeastKey(ge)
           /\ ItValid(again) = ItValid(mi)
           /\ ItValid(again) => ItKey(again) = ItKey(mi)

\* C9 witness: an exhausted forward iterator over three inputs was sought to
\* a key that no input holds and stands at a larger key.
C9_Witness ==
    /\ mpc.op = "Seek" /\ ~mi.reverse /\ mpc.from = "exhausted"
    /\ NumInputs(mi) = 3
    /\ mpc.key \notin InputKeys(mi)
    /\ ItValid(mi) /\ CompareKeys(ItKey(mi), mpc.key) > 0
    /\ \E x \in InputKeys(mi) : CompareKeys(x, mpc.key) < 0

-----------------------------------------------------------------------------
(* discardStats: properties *)

\* The fids that got a positive update.
Positive(log) == {log[i].fid : i \in {j \in DOMAIN log : log[j].discard > 0}}

\* The sum of the positive updates of a fid since its last negative one.
RECURSIVE SumSince(_, _)
SumSince(log, fid) ==
    IF log = <<>> THEN 0
    ELSE LET e == log[Len(log)]
             before == SubSeq(log, 1, Len(log) - 1)
         IN IF e.fid # fid THEN SumSince(before, fid)
            ELSE IF e.discard < 0 THEN 0
            ELSE SumSince(before, fid) + e.discard

\* C10: after any sequence of Update calls, Iterate visits every fid that got
\* a positive update once, and no other fid, with the sum of the fid's
\* positive updates since its last negative one; and an Update of such a fid
\* returns that sum.
C10_IterateSumsUpdates ==
    /\ dcall.op = "Iterate" =>
          /\ \A i, j \in DOMAIN dcall.visits :
                dcall.visits[i].fid = dcall.visits[j].fid => i = j
          /\ {dcall.visits[i].fid : i \in DOMAIN dcall.visits} = Positive(dlog)
          /\ \A i \in DOMAIN dcall.visits :
                dcall.visits[i].discard = SumSince(dlog, dcall.visits[i].fid)
    /\ (dcall.op = "Update" /\ dcall.fid \in Positive(dlog)) =>
          dcall.ret = SumSince(dlog, dcall.fid)

\* C10 witness: Iterate has visited two fids after the file had to grow, one
\* of them updated again after a reset.
C10_Witness ==
    /\ dcall.op = "Iterate"
    /\ Len(dcall.visits) = 2
    /\ maxSlot(lf) > InitialSlots
    /\ \E i, j, k \in DOMAIN dlog :
          /\ i < j /\ j < k
          /\ dlog[i].fid = dlog[j].fid /\ dlog[j].fid = dlog[k].fid
          /\ dlog[i].discard > 0 /\ dlog[j].discard < 0 /\ dlog[k].discard > 0

\* The fid has a slot in the file.
HasSlot(f, fid) == \E i \in 1..f.nextEmptySlot : f.Data[i].fid = fid

\* A step that is an Update call.
UpdateStep == Len(dlog') = Len(dlog) + 1

\* C11: Update(fid, 0), and Update(fid, d) with d <= 0 on a fid without a
\* slot, leave the slots, nextEmptySlot and the file length as they are; the
\* latter returns 0.
C11_QueryChangesNothing ==
    [][UpdateStep =>
          /\ dcall'.discard = 0 => lf' = lf
          /\ (dcall'.discard <= 0 /\ ~HasSlot(lf, dcall'.fid)) =>
                lf' = lf /\ dcall'.ret = 0]_vars

\* C11 witness: a negative Update of a fid without a slot has returned, on a
\* file that holds slots of other fids.
C11_Witness ==
    /\ dcall.op = "Update"
    /\ dcall.discard < 0
    /\ ~HasSlot(lf, dcall.fid)
    /\ lf.nextEmptySlot >= 2
    /\ dcall.ret = 0

\* C12: the slots below nextEmptySlot hold distinct fids in strictly ascending
\* order, and the slot at nextEmptySlot holds fid 0 and discard 0.
C12_SortedPrefixZeroSentinel ==
    /\ \A i, j \in 1..lf.nextEmptySlot : i < j => lf.Data[i].fid < lf.Data[j].fid
    /\ lf.Data[lf.nextEmptySlot + 1] = ZeroSlot

\* n is InitialSlots times a power of two.
RECURSIVE IsDoubling(_)
IsDoubling(n) ==
    \/ n = InitialSlots
    \/ n > InitialSlots /\ n % 2 = 0 /\ IsDoubling(n \div 2)

\* The entries of the file: the slots below nextEmptySlot.
Entries(f) == Range(IterateStats(f))

\* C13: the file length only grows and is the initial length times a power of
\* two; nextEmptySlot stays below the capacity; the length doubles exactly in
\* the Update that fills the last slot of the current capacity, and that
\* Update keeps every entry and adds its own.
C13_GrowthDoubles ==
    /\ [](IsDoubling(maxSlot(lf)) /\ lf.nextEmptySlot < maxSlot(lf))
    /\ [][/\ maxSlot(lf') >= maxSlot(lf)
          /\ maxSlot(lf') # maxSlot(lf) =>
                /\ UpdateStep
                /\ maxSlot(lf') = 2 * maxSlot(lf)
                /\ lf'.nextEmptySlot = maxSlot(lf)
                /\ Entries(lf') = Entries(lf) \cup {Slot(dcall'.fid, dcall'.discard)}
          /\ (UpdateStep /\ lf'.nextEmptySlot = maxSlot(lf)) =>
                maxSlot(lf') = 2 * maxSlot(lf)]_vars

\* C13 witness: the file has doubled twice and holds as many entries as it
\* had slots before the second doubling.
C13_Witness ==
    /\ dcall.op = "Update"
    /\ maxSlot(lf) = 4 * InitialSlots
    /\ lf.nextEmptySlot = 2 * InitialSlots
    /\ Cardinality(Entries(lf)) = 2 * InitialSlots

\* The slots of the largest discard in the file.
MaxSlots(f) == {e \in Entries(f) : \A x \in Entries(f) : x.discard <= e.discard}

\* C14 as stated: MaxDiscard returns (0, 0) when the file has no entry, and
\* otherwise the fid and discard of an entry whose discard is the largest.
C14_MaxOfValidSlots ==
    dcall.op = "MaxDiscard" =>
        IF Entries(lf) = {} THEN dcall.ret = <<0, 0>>
        ELSE \E e \in MaxSlots(lf) : dcall.ret = <<e.fid, e.discard>>

\* C14 as amended: MaxDiscard returns (0, 0) when no entry has a positive
\* discard, and otherwise the fid and discard of the entry of the largest
\* discard, the one of the smallest fid if there are several.
C14_MaxPositiveOrZero ==
    dcall.op = "MaxDiscard" =>
        IF \A e \in Entries(lf) : e.discard = 0 THEN dcall.ret = <<0, 0>>
        ELSE \E e \in MaxSlots(lf) :
                /\ dcall.ret = <<e.fid, e.discard>>
                /\ \A x \in MaxSlots(lf) : e.fid <= x.fid

\* C14 witness: MaxDiscard has returned (0, 0) on a file whose entries, none
\* of them of fid 0, were all reset.
C14_Witness ==
    /\ dcall.op = "MaxDiscard"
    /\ dcall.ret = <<0, 0>>
    /\ Cardinality(Entries(lf)) >= 2
    /\ \A e \in Entries(lf) : e.fid # 0 /\ e.discard = 0

\* C15: when the file has been closed and opened again, Iterate gives the
\* (fid, discard) pairs it gave before the close, and nextEmptySlot is their
\* number.
C15_ReopenKeepsEntries ==
    dcall.op = "InitDiscardStats" =>
        /\ Entries(lf) = Range(dcall.visits)
        /\ lf.nextEmptySlot = Len(dcall.visits)

\* Where an Update is after its first write and before its return.
UpdateWriting == {"u_discard", "u_move", "u_grow", "u_zero", "u_sort"}

\* The fids are strictly ascending.
AscendingFids(slots) == \A i, j \in DOMAIN slots : i < j => slots[i].fid < slots[j].fid

\* C16: no Iterate reads the slots while an Update is between its first write
\* and its return, and what an Iterate has visited is sorted by fid, each fid
\* once.
C16_IterateSerialised ==
    /\ \A p, q \in Procs : ~(dpc[p].at = "i_loop" /\ dpc[q].at \in UpdateWriting)
    /\ dcall.op = "Iterate" => AscendingFids(dcall.visits)

\* The call of overlappingTables that goroutine p has made last.
Overlapped(p) == pc[p] = "done" /\ loc[p].op = "overlappingTables"

\* C17 as stated: (0, 0) when an endpoint is empty; otherwise, for a range
\* with kr.left <= kr.right, i <= j and the tables at [i, j) are those whose
\* range intersects [kr.left, kr.right).
C17_HalfOpenRange ==
    \A p \in Procs : Overlapped(p) =>
        LET kr == loc[p].key
            i == loc[p].out[1]
            j == loc[p].out[2]
        IN IF kr.left = <<>> \/ kr.right = <<>> THEN i = 0 /\ j = 0
           ELSE CompareKeys(kr.left, kr.right) <= 0 =>
                /\ i <= j
                /\ \A x \in 0..(Len(tables) - 1) :
                      (i <= x /\ x < j) <=>
                          /\ CompareKeys(Biggest(tables[x + 1]), kr.left) >= 0
                          /\ CompareKeys(Smallest(tables[x + 1]), kr.right) < 0

\* C17 as amended: (0, 0) when an endpoint is empty; otherwise, for
\* kr.left <= kr.right, i <= j and the tables at [i, j) are those whose range
\* intersects the closed range [kr.left, kr.right].
C17_ClosedRange ==
    \A p \in Procs : Overlapped(p) =>
        LET kr == loc[p].key
            i == loc[p].out[1]
            j == loc[p].out[2]
        IN IF kr.left = <<>> \/ kr.right = <<>> THEN i = 0 /\ j = 0
           ELSE CompareKeys(kr.left, kr.right) <= 0 =>
                /\ i <= j
                /\ \A x \in 0..(Len(tables) - 1) :
                      (i <= x /\ x < j) <=>
                          /\ CompareKeys(Biggest(tables[x + 1]), kr.left) >= 0
                          /\ CompareKeys(Smallest(tables[x + 1]), kr.right) <= 0

\* C17 witness: on a level of four tables a range that ends at the smallest
\* key of the third table gives the second and the third table.
C17_Witness ==
    \E p \in Procs :
        /\ Overlapped(p)
        /\ Len(tables) = 4
        /\ loc[p].key.right = Smallest(tables[3])
        /\ loc[p].out = <<1, 3>>

-----------------------------------------------------------------------------
(* C18: changes of the table list and the sizes happen under the write lock *)

\* A step that changes s.tables (its contents or its order) or the sizes.
Modifies ==
    \/ tables' # tables
    \/ totalSize' # totalSize
    \/ totalStaleSize' # totalStaleSize

\* C18: every step that changes the table list, its order or the size totals
\* is taken while a goroutine holds the write lock, so that no goroutine holds
\* the read lock at that step. sortTables is one of the operations concerned.
C18_ModifiedUnderWriteLock ==
    [][Modifies => (writer # 0 /\ readers = {})]_vars

-----------------------------------------------------------------------------
(* C19: the references of toDel are released after the lock *)

Removing == {"deleteTables", "replaceTables"}

\* p makes one DecrRef call of decrRefs(toDel).
DecrRefStep(p) ==
    /\ loc[p].op \in Removing
    /\ loc'[p].op = loc[p].op
    /\ loc'[p].i = loc[p].i + 1

\* p releases the write lock in deleteTables or replaceTables.
UnlockStep(p) == pc[p] \in {"dt_unlock", "rt_unlock"} /\ pc'[p] # pc[p]

\* C19: in deleteTables and replaceTables no DecrRef of toDel is made before
\* the write lock is released, and at the release the new list and the sizes
\* are installed: the removed tables are out of s.tables, the added ones are
\* in it, and the totals are the sums over it. Every DecrRef of toDel is made
\* by a goroutine that holds neither lock, whoever else holds one.
C19_DecrRefsAfterUnlock ==
    [][\A p \in Procs :
          /\ UnlockStep(p) =>
                /\ writer = p /\ writer' = 0
                /\ loc[p].i = 0
                /\ Range(tables) \cap loc[p].removed = {}
                /\ Range(loc[p].toAdd) \subseteq Range(tables)
                /\ SizesMatch
          /\ DecrRefStep(p) =>
                /\ pc[p] = "decr"
                /\ writer # p
                /\ p \notin readers]_vars

\* A goroutine is between two DecrRef calls of its toDel while another one
\* holds the write lock.
C19_Witness ==
    \E p \in Procs :
        /\ pc[p] = "decr"
        /\ loc[p].i >= 1
        /\ loc[p].i < Len(loc[p].toDel)
        /\ writer \in Procs \ {p}

-----------------------------------------------------------------------------
(* C20: the first-error policy of the loops that release references *)

\* The list of tables whose DecrRef the returned operation of p had to call:
\* toDel for decrRefs, the tables handed out for the release closure.
ToRelease(p) ==
    IF loc[p].op \in Removing THEN loc[p].toDel
    ELSE IF loc[p].op = "get" THEN loc[p].out
    ELSE <<>>

\* C20: decrRefs in deleteTables and replaceTables, and the release closure of
\* the tables handed out for a key, remember the first error and attempt the
\* remaining elements: when the operation has returned, DecrRef has been
\* called on every table of the list, whether or not a call failed.
C20_RestAttemptedAfterError ==
    \A p \in Procs :
        (pc[p] = "done" /\ loc[p].op \in Removing \cup {"get"}) =>
            loc[p].i = Len(ToRelease(p))

-----------------------------------------------------------------------------
(* C21: the same full key in several inputs *)

\* The indices, in the list given to NewMergeIterator, of the inputs that
\* hold the key.
RECURSIVE Holders(_, _)
Holders(it, key) ==
    IF it.kind = "leaf" THEN (IF key \in Range(it.keys) THEN {it.src} ELSE {})
    ELSE Holders(it.left.iter, key) \cup Holders(it.right.iter, key)

LowestHolder(it, key) ==
    CHOOSE i \in Holders(it, key) : \A j \in Holders(it, key) : i <= j

\* appendIterators on level 0: the iterators of the picked tables are appended
\* in the reverse order of the level's slice.
AppendIteratorsReversed(iters, out) == iters \o Reverse(out)

\* The position in the level-0 slice of the table behind input i, when the
\* inputs are the iterators appended for that slice.
PositionOf(it, i) ==
    AppendIteratorsReversed(<<>>, [q \in 1..NumInputs(it) |-> q])[i]

\* C21: after Rewind, Seek and Next, forward and reverse, the entry a valid
\* MergeIterator stands at comes from the input with the lowest index among
\* the inputs that hold its full key; the copies in the later inputs are
\* skipped, so no full key is read twice between two repositionings. With
\* the inputs appended for a level-0 slice, it comes from the table that is
\* last in the slice among those that hold the key.
C21_LowestInputWins ==
    /\ ItValid(mi) =>
          /\ Holders(mi, ItKey(mi)) # {}
          /\ ItValue(mi) = LowestHolder(mi, ItKey(mi))
          /\ \A i \in Holders(mi, ItKey(mi)) :
                PositionOf(mi, i) <= PositionOf(mi, ItValue(mi))
    /\ \A i, j \in DOMAIN emitted : i # j => emitted[i] # emitted[j]

\* A reverse iterator over three inputs has been moved by Next to a key that
\* the second and the third input hold and the first does not.
C21_Witness ==
    /\ mpc.op = "Next" /\ mi.reverse /\ ItValid(mi)
    /\ NumInputs(mi) = 3
    /\ Holders(mi, ItKey(mi)) = {2, 3}
    /\ ItValue(mi) = 2

-----------------------------------------------------------------------------
(* get interleaved with deleteTables and replaceTables *)

MaxGetCalls == 4    \* the operations started in one behaviour of SpecGet

\* The tables the level was loaded with; the level holds their only
\* reference. The other tables are new ones, whose creator holds a reference
\* of its own for the whole behaviour.
LoadedIds == {1, 2}

InitGet ==
    /\ level \in {0, 1}
    /\ tables = InitTablesSort(level, <<1, 2>>)
    /\ totalSize = SizeSum(tables)
    /\ totalStaleSize = StaleSum(tables)
    /\ ref = [t \in TableIds |-> 1]
    /\ writer = 0
    /\ readers = {}
    /\ pc = [p \in Procs |-> "idle"]
    /\ loc = [p \in Procs |-> NoLoc]
    /\ calls = 0
    /\ InitMerge
    /\ InitDiscard

MayCallGet == calls < MaxGetCalls

\* The caller of deleteTables and replaceTables removes tables of the level.
InLevel(toDel) == Range(toDel) \subseteq Range(tables)

NextGet ==
    \/ \E p \in Procs, key \in AllKeys : MayCallGet /\ Get(p, key)
    \/ \E p \in Procs : GetTableForKey(p)
    \/ \E p \in Procs : GetDecr(p)
    \/ \E p \in Procs, toDel \in SeqsAsc(TableIds, 1, MaxDel) :
          MayCallGet /\ InLevel(toDel) /\ DeleteTables(p, toDel)
    \/ \E p \in Procs : DeleteTablesFilter(p)
    \/ \E p \in Procs : DeleteTablesAssign(p)
    \/ \E p \in Procs : DeleteTablesUnlock(p)
    \/ \E p \in Procs : DecrRefs(p)
    \/ \E p \in Procs, toDel \in SeqsAsc(TableIds, 0, MaxDel),
          toAdd \in SeqsAsc(TableIds, 1, MaxAdd) :
          MayCallGet /\ InLevel(toDel) /\ ReplaceTables(p, toDel, toAdd)
    \/ \E p \in Procs : ReplaceTablesFilter(p)
    \/ \E p \in Procs : ReplaceTablesAdd(p)
    \/ \E p \in Procs : ReplaceTablesAssign(p)
    \/ \E p \in Procs : ReplaceTablesSortStep(p)
    \/ \E p \in Procs : ReplaceTablesUnlock(p)

SpecGet == InitGet /\ [][NextGet]_vars

\* The readers that hold table t: it was returned to them and their release
\* closure has not reached it.
HeldBy(t) ==
    {p \in Procs : /\ pc[p] = "g_decr"
                   /\ \E j \in (loc[p].i + 1)..Len(loc[p].out) : loc[p].out[j] = t}

\* The goroutines that removed t from the level and have not reached its
\* DecrRef in decrRefs(toDel).
PendingBy(t) ==
    {p \in Procs : /\ pc[p] = "decr"
                   /\ t \in loc[p].removed
                   /\ \E j \in (loc[p].i + 1)..Len(loc[p].toDel) : loc[p].toDel[j] = t}

\* The references to t that are accounted for.
Holds(t) ==
    (IF t \in LoadedIds THEN 0 ELSE 1)
    + Cardinality({j \in DOMAIN tables : tables[j] = t})
    + Cardinality(PendingBy(t))
    + Cardinality(HeldBy(t))

\* C22: a table returned to a reader is not destroyed before the reader's
\* release closure reaches it; when a get has returned, its release closure
\* has called DecrRef on every table it was given, once; and while nobody
\* holds the write lock the reference count of a table is the number of its
\* holders (the level, a remover on its way to decrRefs, the readers, the
\* creator of a new table), so that a removed table is destroyed exactly when
\* the last reference is released.
C22_HeldTablesAlive ==
    /\ \A t \in TableIds : HeldBy(t) # {} => ref[t] > 0
    /\ \A p \in Procs :
          (pc[p] = "done" /\ loc[p].op = "get") => loc[p].i = Len(loc[p].out)
    /\ writer = 0 => \A t \in TableIds : ref[t] = Holds(t)

-----------------------------------------------------------------------------
(* C23: the state of a two-way MergeIterator after Rewind, Seek and Next *)

\* Key a comes strictly before key b in the iteration order.
Before(reverse, a, b) ==
    IF reverse THEN CompareKeys(a, b) > 0 ELSE CompareKeys(a, b) < 0

\* One MergeIterator: its two nodes mirror its children, it is invalid iff
\* both children are exhausted, small is a valid child at the preferred key
\* with the other child, if valid, at a strictly later key, and curKey is
\* small.key.
TwoWay(m) ==
    /\ m.left.valid = ItValid(m.left.iter)
    /\ m.right.valid = ItValid(m.right.iter)
    /\ ~ItValid(m) <=> (~ItValid(m.left.iter) /\ ~ItValid(m.right.iter))
    /\ ItValid(m) =>
          /\ Small(m).key = ItKey(Small(m).iter)
          /\ Bigger(m).valid =>
                /\ Bigger(m).key = ItKey(Bigger(m).iter)
                /\ Small(m).key # Bigger(m).key
                /\ Before(m.reverse, Small(m).key, Bigger(m).key)
    /\ m.curKey = Small(m).key

\* Every MergeIterator of the tree NewMergeIterator has built.
RECURSIVE EveryTwoWay(_)
EveryTwoWay(it) ==
    IF it.kind = "leaf" THEN TRUE
    ELSE TwoWay(it) /\ EveryTwoWay(it.left.iter) /\ EveryTwoWay(it.right.iter)

\* C23: after each of Rewind, Seek and Next, the iterator is invalid iff both
\* children are exhausted; when it is valid, small is a valid child at the
\* preferred key (smallest forward, largest in reverse) and the other child,
\* if valid, stands at a strictly different key; curKey equals small.key.
\* Every Next on a valid iterator that leaves it valid moves it to a key
\* strictly later in the iteration order.
C23_SmallIsPreferred ==
    /\ mpc.op # "New" => EveryTwoWay(mi)
    /\ \A i, j \in DOMAIN emitted :
          i < j => Before(mi.reverse, emitted[i], emitted[j])

\* A reverse iterator over three inputs was sought, then moved by Next, and
\* both of its children are valid; the right child is a MergeIterator.
C23_Witness ==
    /\ mpc.op = "Next" /\ ~mpc.scan /\ mi.reverse
    /\ NumInputs(mi) = 3
    /\ Len(emitted) >= 2
    /\ mi.left.valid /\ mi.right.valid
    /\ mi.right.iter.kind = "merge"
    /\ mi.right.iter.left.valid /\ mi.right.iter.right.valid

====
